---------------------------- MODULE Spec2Model ----------------------------
(***************************************************************************)
(* A model of ytls: the live pipeline controller (lib/YouTubeLiveStream.ts),*)
(* the buffered fetcher (src/BufferedStreamLoader.ts) and the playlist line *)
(* parser (M3U8Parser).  Three specifications share one set of variables:   *)
(*   Spec        the controller, one fetch attempt per step                 *)
(*   SpecFetch   one downloadTries call, one HTTP hop per step              *)
(*   SpecParser  one M3U8Parser instance fed a document in chunks           *)
(* A specification parks the variables of the other two components.         *)
(***************************************************************************)
EXTENDS Integers, Sequences, FiniteSets, TLC

(***************************************************************************)
(* Bounds of the model                                                      *)
(***************************************************************************)
\* largest tryCount handed to downloadTries in SpecFetch
MaxTries == 3
\* a playlist document of SpecParser is the concatenation of at most MaxPieces pieces
MaxPieces == 3
\* a playlist answer of Spec holds at most MaxItems items
MaxItems == 4
\* the interval timer of Spec fires at most MaxTicks times
MaxTicks == 2

(***************************************************************************)
(* Program constants                                                        *)
(***************************************************************************)
\* downloadBuffer(url, redirectCount = 0, maxRedirects = 3)
maxRedirects == 3
\* arguments[1] || 3, and the floor of segmentCacheCount
DefaultCacheCount == 3
MinCacheCount == 3
\* downloadTries(url, 3, ...) in loadSegments
LoadTries == 3

Null == "null"
\* an optional value: None, or Some(x)
None == <<>>
Some(x) == <<x>>
The(opt) == opt[1]

VARIABLES
    \* ---- BufferedStreamLoader: one downloadTries call
    dlPc,            \* "off" | "call" (downloadBuffer about to run) | "wait" (https.get
                     \* issued, response pending) | "resolved" | "rejected"
    reqUrl,          \* scheme of the url argument of downloadTries
    maxTries,        \* the tryCount argument of the outermost downloadTries call
    url,             \* scheme of the url of the current downloadBuffer call
    tryCount,        \* tryCount of the current (recursive) downloadTries call
    redirectCount,   \* redirectCount of the current (recursive) downloadBuffer call
    dlError,         \* the error the last failed attempt rejected with
    attemptLog,      \* history: per finished attempt its result and redirects received
    redirectsSeen,   \* history: redirect responses received in the current attempt
    dlWarnings,      \* history: warningCallback invocations
    httpsGetCalls,   \* history: calls of https.get
    invalidGetCalls, \* history: calls of https.get made for a url that is not https
    strayGets        \* requests of such calls that were sent and have not ended

VARIABLES
    \* ---- M3U8Parser: one instance, one document
    parserPc,        \* "off" | "open" | "finished" ('finish' handler has run)
    doc,             \* the bytes of the whole playlist document
    rest,            \* the bytes not yet written to the parser
    lastLine,        \* M3U8Parser.lastLine, the pending partial line
    decoded,         \* history: the text the _write calls decoded so far
    events           \* history: the tag / item / end events emitted so far

parserVars == <<parserPc, doc, rest, lastLine, decoded, events>>

VARIABLES
    \* ---- YouTubeLiveStream (lib/YouTubeLiveStream.ts)
    phase,             \* "off" | "new" (constructor not run) | "live" | "failed" (threw)
    segmentCacheCount,
    resolvedUrl,       \* None or Some(the url the resolver returned)
    urlExpire,
    startSequence,     \* None or Some(the number the string holds)
    loadInterval,      \* TRUE: the interval timer is set; FALSE: null
    isLoadingSegments,
    now,               \* Date.now(), in timer periods
    pc,                \* where the running loadSegments call is suspended: "idle" (none)
                       \* | "resolve" | "playlist" | "parse" | "segment"
    items,             \* the local items of loadSegments
    idx,               \* the position of the for loop in items
    ctorArg,           \* history: the segmentCacheCount argument of the constructor
    active,            \* history: loadSegments calls past the guard that have not ended
    fx,                \* history: what the last step did, in order: "warning", "error",
                       \* "resolve" (resolveFunc called), "fetch" (downloadTries attempt
                       \* started), "append" (a segment piped into the stream)
    playlist,          \* history: the items the parser emitted in the last cycle
    cursorAtStart,     \* history: startSequence when the last cycle started
    requestSeq,        \* history: start_seq of the last playlist request, if any
    requestUrl,        \* history: the source url of the last playlist request, if any
    firstResolve,      \* history: the argument of the last resolveFunc call, if any
    cycleOut,          \* history: sequence ids of the segments the last cycle piped
    delivered,         \* history: sequence ids of the segments earlier cycles piped
    exit               \* history: how the last cycle ended: "none" (running) | "empty"
                       \* | "closed" | "complete" | "error"

ctlVars == <<phase, segmentCacheCount, resolvedUrl, urlExpire, startSequence,
             loadInterval, isLoadingSegments, now, pc, items, idx, ctorArg, active, fx,
             playlist, cursorAtStart, requestSeq, requestUrl,
             firstResolve, cycleOut, delivered, exit>>

fetchVars == <<dlPc, reqUrl, maxTries, url, tryCount, redirectCount, dlError,
               attemptLog, redirectsSeen, dlWarnings, httpsGetCalls, invalidGetCalls,
               strayGets>>

vars == <<fetchVars, parserVars, ctlVars>>

(***************************************************************************)
(* BufferedStreamLoader                                                     *)
(***************************************************************************)
\* what parse(url).protocol can be: "https:", another protocol, or none (relative url)
Schemes == {"https", "http", "none"}

RedirectStatus == {301, 302, 303, 307}
\* status codes the model's server answers with
StatusCodes == RedirectStatus \cup {200, 404}

\* BufferedStreamLoader.ts:67   parsed.protocol !== 'https:'
InvalidUrl(u) == u # "https"

\* BufferedStreamLoader.ts:70   [301, 302, 303, 307].indexOf(res.statusCode) > -1
IsRedirect(status) == status \in RedirectStatus

\* BufferedStreamLoader.ts:71   redirectCount >= (maxRedirects - 1)
TooManyRedirects(rc) == rc >= maxRedirects - 1

\* BufferedStreamLoader.ts:76   res.statusCode < 200 || 300 <= res.statusCode
BadStatus(status) == status < 200 \/ 300 =< status

\* a retry loop that never gives up
ExhaustedNever(tc) == FALSE

\* a retry loop that gives up one attempt early
ExhaustedEarly(tc) == tc =< 2

\* a retry loop that gives up one attempt late
ExhaustedLate(tc) == tc =< 0

\* BufferedStreamLoader.ts:30   tryCount <= 1
Exhausted(tc) == tc =< 1

\* The catch block of downloadTries (lines 27-32) run for an attempt rejected with err:
\* the warning callback, then either the final rejection or the recursive call with
\* tryCount - 1, which starts download(url) over with the original url.
DownloadTriesCatch(err) ==
    /\ dlWarnings' = dlWarnings + 1
    /\ attemptLog' = Append(attemptLog, [res |-> err, redirects |-> redirectsSeen'])
    /\ dlError' = err
    /\ IF Exhausted(tryCount)
         THEN /\ dlPc' = "rejected"
              /\ UNCHANGED <<tryCount, url, redirectCount>>
         ELSE /\ dlPc' = "call"
              /\ tryCount' = tryCount - 1
              /\ url' = reqUrl
              /\ redirectCount' = 0

\* https.get(parsed, ...) (line 69) for a url that failed the protocol check: with no
\* protocol at all the request options fall back to https and a request is sent; with
\* another protocol https.get throws inside the executor, after the rejection
SendsRequest(u) == u = "none"

\* The promise executor of downloadBuffer (lines 52-92): the protocol check rejects but
\* does not return, so https.get(parsed, ...) is called for every url.  For a url that
\* is not https the promise is already rejected (finished = true): whatever the stray
\* https.get call does afterwards cannot change the attempt's outcome.
DownloadBuffer ==
    /\ dlPc = "call"
    /\ httpsGetCalls' = httpsGetCalls + 1
    /\ IF InvalidUrl(url)
         THEN /\ invalidGetCalls' = invalidGetCalls + 1
              /\ strayGets' = (IF SendsRequest(url) THEN strayGets + 1 ELSE strayGets)
              /\ redirectsSeen' = (IF redirectCount = 0 THEN 0 ELSE redirectsSeen)
              /\ DownloadTriesCatch("InvalidUrl")
         ELSE /\ dlPc' = "wait"
              /\ redirectsSeen' = (IF redirectCount = 0 THEN 0 ELSE redirectsSeen)
              /\ UNCHANGED <<invalidGetCalls, strayGets, tryCount, url, redirectCount, dlError,
                             attemptLog, dlWarnings>>
    /\ UNCHANGED <<reqUrl, maxTries>>

\* The response callback of https.get (lines 69-90) for a response with this status
\* code and, for a redirect, this Location header.
Response(status, location) ==
    /\ dlPc = "wait"
    /\ IF IsRedirect(status)
         THEN /\ redirectsSeen' = redirectsSeen + 1
              /\ IF TooManyRedirects(redirectCount)
                   THEN DownloadTriesCatch("TooManyRedirects")
                   ELSE /\ dlPc' = "call"
                        /\ url' = location
                        /\ redirectCount' = redirectCount + 1
                        /\ UNCHANGED <<tryCount, dlError, attemptLog, dlWarnings>>
         ELSE /\ UNCHANGED redirectsSeen
              /\ IF BadStatus(status)
                   THEN DownloadTriesCatch("BadStatus")
                   ELSE \* res 'end': resolve(Buffer.concat(data)); download() wraps the
                        \* buffer in a Duplex and downloadTries returns it
                        /\ dlPc' = "resolved"
                        /\ attemptLog' = Append(attemptLog,
                                           [res |-> "ok", redirects |-> redirectsSeen])
                        /\ UNCHANGED <<tryCount, url, redirectCount, dlError, dlWarnings>>
    /\ UNCHANGED <<reqUrl, maxTries, httpsGetCalls, invalidGetCalls, strayGets>>

\* a request sent for an invalid url ends (response or error): resolve and reject
\* are no-ops, finished is set (lines 55-64)
StrayRequestEnds ==
    /\ strayGets > 0
    /\ strayGets' = strayGets - 1
    /\ UNCHANGED <<dlPc, reqUrl, maxTries, url, tryCount, redirectCount, dlError,
                   attemptLog, redirectsSeen, dlWarnings, httpsGetCalls, invalidGetCalls>>

\* req.on('error', reject) / res.on('error', reject) (lines 89, 92)
TransportError ==
    /\ dlPc = "wait"
    /\ UNCHANGED redirectsSeen
    /\ DownloadTriesCatch("TransportError")
    /\ UNCHANGED <<reqUrl, maxTries, httpsGetCalls, invalidGetCalls, strayGets>>

(***************************************************************************)
(* M3U8Parser.  Bytes and characters are numbers: a byte is its value, a    *)
(* character its code point.                                                *)
(***************************************************************************)
NL == 10
HASH == 35
COLON == 58
REPLACEMENT == 65533

ParkedParser ==
    /\ parserPc = "off"
    /\ doc = <<>>
    /\ rest = <<>>
    /\ lastLine = <<>>
    /\ decoded = <<>>
    /\ events = <<>>

\* chunk.toString('utf8') (line 45): Buffer's UTF-8 decoding of one chunk on its own.
\* A one-byte character decodes to itself, a two-byte lead followed by a continuation
\* byte to their code point, and a byte that starts no complete sequence in this chunk
\* to U+FFFD.  (The model's documents hold no three- or four-byte sequences.)
IsAscii(b) == b < 128
IsLead2(b) == 194 =< b /\ b =< 223
IsCont(b) == 128 =< b /\ b =< 191

RECURSIVE ToStringUtf8(_)
ToStringUtf8(bytes) ==
    IF bytes = <<>> THEN <<>>
    ELSE IF IsAscii(Head(bytes)) THEN <<Head(bytes)>> \o ToStringUtf8(Tail(bytes))
    ELSE IF IsLead2(Head(bytes)) /\ Len(bytes) >= 2 /\ IsCont(bytes[2])
           THEN <<(Head(bytes) - 192) * 64 + (bytes[2] - 128)>>
                  \o ToStringUtf8(Tail(Tail(bytes)))
    ELSE <<REPLACEMENT>> \o ToStringUtf8(Tail(bytes))

\* String.prototype.split('\n') (line 45): always at least one fragment
RECURSIVE SplitNL(_)
SplitNL(str) ==
    IF \A i \in DOMAIN str : str[i] # NL THEN <<str>>
    ELSE LET i == CHOOSE k \in DOMAIN str :
                     str[k] = NL /\ \A j \in 1..(k - 1) : str[j] # NL
         IN  <<SubSeq(str, 1, i - 1)>> \o SplitNL(SubSeq(str, i + 1, Len(str)))

\* String.prototype.trim (lines 39-40), over the white space the model's documents hold
IsWhiteSpace(c) == c \in {9, 10, 11, 12, 13, 32, 160}

RECURSIVE TrimStart(_)
TrimStart(str) ==
    IF str # <<>> /\ IsWhiteSpace(Head(str)) THEN TrimStart(Tail(str)) ELSE str

RECURSIVE TrimEnd(_)
TrimEnd(str) ==
    IF str # <<>> /\ IsWhiteSpace(str[Len(str)])
      THEN TrimEnd(SubSeq(str, 1, Len(str) - 1)) ELSE str

Trim(str) == TrimStart(TrimEnd(str))

\* [A-Z0-9-] of the tag pattern (line 36)
IsTagChar(c) == (65 =< c /\ c =< 90) \/ (48 =< c /\ c =< 57) \/ c = 45
\* '.' of the tag pattern: any character but a line terminator
IsLineTerminator(c) == c \in {10, 13, 8232, 8233}

\* length of the longest prefix of str whose characters all satisfy the class
RECURSIVE TagRun(_)
TagRun(str) ==
    IF str # <<>> /\ IsTagChar(Head(str)) THEN 1 + TagRun(Tail(str)) ELSE 0

RECURSIVE DotRun(_)
DotRun(str) ==
    IF str # <<>> /\ ~IsLineTerminator(Head(str)) THEN 1 + DotRun(Tail(str)) ELSE 0

\* line.match(/^#(EXT[A-Z0-9-]+)(?::(.*))?/) (line 36) matches
TagMatches(line) ==
    /\ Len(line) >= 5
    /\ SubSeq(line, 1, 4) = <<HASH, 69, 88, 84>>
    /\ IsTagChar(line[5])

\* tag[1]: "EXT" and the greedy run of tag characters
TagName(line) == SubSeq(line, 2, 4 + TagRun(SubSeq(line, 5, Len(line))))

\* tag[2] || null: the payload after ':' up to a line terminator; none or empty is null
TagPayload(line) ==
    LET after == SubSeq(line, 5 + TagRun(SubSeq(line, 5, Len(line))), Len(line))
        payload == SubSeq(after, 2, 1 + DotRun(Tail(after)))
    IN  IF after # <<>> /\ Head(after) = COLON /\ payload # <<>>
          THEN payload ELSE None

\* parseLine (lines 35-42): the events one line emits
parseLine(line) ==
    IF TagMatches(line)
      THEN <<[type |-> "tag", name |-> TagName(line), payload |-> TagPayload(line)]>>
    ELSE IF ~(line # <<>> /\ Head(line) = HASH) /\ Trim(line) # <<>>
      THEN <<[type |-> "item", value |-> Trim(line)]>>
    ELSE <<>>

RECURSIVE ParseLines(_)
ParseLines(lines) ==
    IF lines = <<>> THEN <<>> ELSE parseLine(Head(lines)) \o ParseLines(Tail(lines))

\* a _write that forgets the pending partial line
WriteLinesNoPending(chunk, pending) == SplitNL(ToStringUtf8(chunk))

\* the lines of _write (lines 45-46): the chunk decoded and split, the pending partial
\* line put in front of the first fragment
WriteLines(chunk, pending) ==
    LET lines == SplitNL(ToStringUtf8(chunk))
    IN  IF pending # <<>> THEN <<pending \o lines[1]>> \o Tail(lines) ELSE lines

\* _write(chunk) (lines 44-57) for the next n bytes of the document
Write(n) ==
    /\ parserPc = "open"
    /\ n \in 0..Len(rest)
    /\ LET lines == WriteLines(SubSeq(rest, 1, n), lastLine)
       IN  /\ events' = events \o ParseLines(SubSeq(lines, 1, Len(lines) - 1))
           /\ lastLine' = lines[Len(lines)]
    /\ decoded' = decoded \o ToStringUtf8(SubSeq(rest, 1, n))
    /\ rest' = SubSeq(rest, n + 1, Len(rest))
    /\ UNCHANGED <<parserPc, doc>>

\* the 'finish' handler (lines 29-32), once the whole document was written and ended
Finish ==
    /\ parserPc = "open"
    /\ rest = <<>>
    /\ events' = events \o parseLine(lastLine) \o <<[type |-> "end"]>>
    /\ parserPc' = "finished"
    /\ UNCHANGED <<doc, rest, lastLine, decoded>>

\* the pieces playlist documents of the model are put together from
Pieces == { <<NL>>,                      \* a line break
            <<97>>,                      \* a
            <<195, 169>>,                \* e-acute, two bytes
            <<32>>,                      \* a space
            <<HASH>>,                    \* #
            <<HASH, 69, 88, 84, 88>>,    \* #EXTX
            <<COLON, 53>> }              \* :5

RECURSIVE Documents(_)
Documents(n) ==
    IF n = 0 THEN {<<>>}
    ELSE Documents(n - 1) \cup {d \o p : d \in Documents(n - 1), p \in Pieces}

(***************************************************************************)
(* YouTubeLiveStream.  A url is the expire time its text embeds, or         *)
(* NoExpire; a playlist item is the sequence id its text embeds, or NoSeq.  *)
(***************************************************************************)
NoExpire == -1
NoSeq == -1

\* what the resolver can return: a url without expire time, or one that expires
\* after the first timer period, after the second, or not within the model's time
ResolvedUrls == {NoExpire, 1, 2, MaxTicks + 1}
\* the sequence ids of the model's playlist items
SeqIds == {1, 2}

RECURSIVE SeqsUpTo(_, _)
SeqsUpTo(S, n) ==
    IF n = 0 THEN {<<>>}
    ELSE SeqsUpTo(S, n - 1) \cup {Append(q, x) : q \in SeqsUpTo(S, n - 1), x \in S}

\* what the parser can emit for a playlist answer: the server is free in the order and
\* the sequence ids of the items it sends, and the last item may embed no sequence id
Playlists ==
    SeqsUpTo(SeqIds, MaxItems)
        \cup {Append(q, NoSeq) : q \in SeqsUpTo(SeqIds, MaxItems - 1)}

\* the constructor's second argument: left out, or a number
CacheArgs == {None} \cup {Some(n) : n \in -1..(MinCacheCount + 1)}
\* the constructor's first argument
FirstArgs == {"function", "string", "other"}

otherVars == <<dlPc, reqUrl, maxTries, url, redirectCount, dlError, attemptLog,
               redirectsSeen, dlWarnings, httpsGetCalls, invalidGetCalls, strayGets,
               parserVars>>

\* arguments[1] || 3 (line 67): a left out or falsy argument gives the default
CacheCountOf(arg) == IF arg = None \/ arg = Some(0) THEN DefaultCacheCount ELSE The(arg)

\* segmentCacheCount < 3 (line 81)
CacheCountTooSmall(n) == n < MinCacheCount

\* the constructor throws (lines 77-81)
ConstructorThrows(first, arg) ==
    \/ first \notin {"function", "string"}
    \/ CacheCountTooSmall(CacheCountOf(arg))

\* (this.segmentCacheCount - 2) * 4500 (line 109)
IntervalMs(n) == (n - 2) * 4500

\* a getExpireTime that never throws
NoExpireTimeNever(u) == FALSE

\* getExpireTime (lines 112-116) throws
NoExpireTime(u) == u = NoExpire

\* a getSequenceID that never throws
NoSequenceIDNever(item) == FALSE

\* getSequenceID (lines 118-125) throws
NoSequenceID(item) == item = NoSeq

\* a guard that is never seen set
GuardNever == FALSE

\* this.isLoadingSegments (line 129)
GuardSet == isLoadingSegments

\* !this.resolvedUrl || Date.now() > this.urlExpire (line 136), at time t
NeedsResolve(t) == resolvedUrl = None \/ t > urlExpire

\* a slice that keeps the first n items instead of the last n
FirstN(q, n) == IF Len(q) =< n THEN q ELSE SubSeq(q, 1, n)

\* items.slice(-this.segmentCacheCount) (line 170)
LastN(q, n) == IF Len(q) =< n THEN q ELSE SubSeq(q, Len(q) - n + 1, Len(q))

\* the windowing of line 170: only without a start sequence
Window(q) == IF startSequence = None THEN LastN(q, segmentCacheCount) ELSE q

SetOf(q) == {q[i] : i \in DOMAIN q}

\* an error wrapper that emits the error but neither stops the timer nor leaves the
\* guard set
ErrorFnRearms(before) ==
    /\ fx' = before \o <<"error">>
    /\ pc' = "idle"
    /\ active' = active - 1
    /\ exit' = "error"
    /\ isLoadingSegments' = FALSE
    /\ loadInterval' = loadInterval

\* an error wrapper that emits the error and leaves the timer running
ErrorFnKeepsTimer(before) ==
    /\ fx' = before \o <<"error">>
    /\ pc' = "idle"
    /\ active' = active - 1
    /\ exit' = "error"
    /\ UNCHANGED <<isLoadingSegments, loadInterval>>

\* errorFn (lines 92-95): destroy(), whose 'close' handler (lines 84-89) clears the
\* interval, then emit('error').  The loadSegments call that threw is over; it has not
\* reset isLoadingSegments.
ErrorFn(before) ==
    /\ loadInterval' = FALSE
    /\ fx' = before \o <<"error">>
    /\ pc' = "idle"
    /\ active' = active - 1
    /\ exit' = "error"
    /\ UNCHANGED isLoadingSegments

\* a return of loadSegments that resets the guard (lines 165-166, 179-180, 193)
Return(how) ==
    /\ isLoadingSegments' = FALSE
    /\ pc' = "idle"
    /\ active' = active - 1
    /\ exit' = how

\* a request url built on the url object of the last request: start_seq is appended
\* to the parameters that one had
WithStartSeqKept(params, cursor) ==
    IF cursor # None THEN Append(requestSeq, The(cursor)) ELSE requestSeq

\* if (this.startSequence) url.searchParams.append('start_seq', ...) (line 143), on the
\* start_seq parameters params of the url object
WithStartSeq(params, cursor) ==
    IF cursor # None THEN Append(params, The(cursor)) ELSE params

\* a resolver told on every call that it is the first
FirstResolveAlways == TRUE

\* !this.resolvedUrl, the argument of resolveFunc (line 137)
FirstResolveArg == resolvedUrl = None

\* lines 141-146: a new URL object of the source src gets start_seq if there is a
\* start sequence, and
\* downloadTries(url.href, 3, ...) is called
RequestPlaylist(src, before) ==
    /\ requestUrl' = Some(src)
    /\ requestSeq' = WithStartSeq(<<>>, startSequence)
    /\ pc' = "playlist"
    /\ tryCount' = LoadTries
    /\ fx' = before \o <<"fetch">>

\* loadSegments from its call to its first await (lines 127-146), called at time t
EnterLoadSegments(t) ==
    IF GuardSet
      THEN /\ fx' = <<"warning">>
           /\ UNCHANGED <<isLoadingSegments, pc, tryCount, active, exit, playlist,
                          cursorAtStart, requestSeq, requestUrl,
                          firstResolve, cycleOut, delivered, items, idx>>
      ELSE /\ isLoadingSegments' = TRUE
           /\ active' = active + 1
           /\ exit' = "none"
           /\ playlist' = <<>>
           /\ cursorAtStart' = startSequence
           /\ delivered' = delivered \cup SetOf(cycleOut)
           /\ cycleOut' = <<>>
           /\ items' = <<>>
           /\ idx' = 0
           /\ IF NeedsResolve(t)
                THEN /\ pc' = "resolve"
                     /\ fx' = <<"resolve">>
                     /\ firstResolve' = Some(FirstResolveArg)
                     /\ UNCHANGED <<tryCount, requestSeq, requestUrl>>
                ELSE /\ RequestPlaylist(The(resolvedUrl), <<>>)
                     /\ UNCHANGED firstResolve

\* a constructor that starts loading and sets the timer before it validates
ConstructStartsFirst(first, arg) ==
    /\ phase = "new"
    /\ ctorArg' = arg
    /\ phase' = (IF ConstructorThrows(first, arg) THEN "failed" ELSE "live")
    /\ segmentCacheCount' = CacheCountOf(arg)
    /\ EnterLoadSegments(now)
    /\ loadInterval' = TRUE
    /\ UNCHANGED <<resolvedUrl, urlExpire, startSequence, now, otherVars>>

\* new YouTubeLiveStream(first, arg) (lines 55-110): validation, the first loadFn()
\* call up to its first await, and setInterval
Construct(first, arg) ==
    /\ phase = "new"
    /\ ctorArg' = arg
    /\ IF ConstructorThrows(first, arg)
         THEN /\ phase' = "failed"
              /\ UNCHANGED <<segmentCacheCount, loadInterval, isLoadingSegments, pc,
                             tryCount, active, fx, exit, playlist, cursorAtStart,
                             requestSeq, requestUrl, firstResolve, cycleOut, delivered, items, idx>>
         ELSE /\ phase' = "live"
              /\ segmentCacheCount' = CacheCountOf(arg)
              /\ EnterLoadSegments(now)
              /\ loadInterval' = TRUE
    /\ UNCHANGED <<resolvedUrl, urlExpire, startSequence, now, otherVars>>

\* the interval timer fires: loadFn() (lines 98-104)
Tick ==
    /\ phase = "live"
    /\ loadInterval
    /\ now =< MaxTicks
    /\ now' = now + 1
    /\ EnterLoadSegments(now + 1)
    /\ UNCHANGED <<phase, segmentCacheCount, resolvedUrl, urlExpire, startSequence,
                   loadInterval, ctorArg, otherVars>>

\* resolveFunc's promise resolves with u (lines 137-146)
ResolveReturn(u) ==
    /\ pc = "resolve"
    /\ resolvedUrl' = Some(u)
    /\ IF NoExpireTime(u)
         THEN /\ ErrorFn(<<>>)
              /\ UNCHANGED <<urlExpire, tryCount, requestSeq, requestUrl>>
         ELSE /\ urlExpire' = u
              /\ RequestPlaylist(u, <<>>)
              /\ UNCHANGED <<loadInterval, isLoadingSegments, active, exit>>
    /\ UNCHANGED <<phase, segmentCacheCount, startSequence, now, items, idx, ctorArg,
                   playlist, cursorAtStart, cycleOut, delivered, firstResolve, otherVars>>

\* resolveFunc throws or its promise rejects: loadSegments throws at line 137
ResolveThrows ==
    /\ pc = "resolve"
    /\ ErrorFn(<<>>)
    /\ UNCHANGED <<phase, segmentCacheCount, resolvedUrl, urlExpire, startSequence, now,
                   tryCount, items, idx, ctorArg, playlist, cursorAtStart, requestSeq, requestUrl,
                   firstResolve,
                   cycleOut, delivered, otherVars>>

\* an attempt of a downloadTries call of loadSegments fails: the catch block of
\* downloadTries (BufferedStreamLoader.ts lines 27-32) with loadSegments' warning
\* callback, and loadFn's catch if the call gives up
AttemptFails ==
    IF Exhausted(tryCount)
      THEN /\ ErrorFn(<<"warning">>)
           /\ UNCHANGED tryCount
      ELSE /\ tryCount' = tryCount - 1
           /\ fx' = <<"warning", "fetch">>
           /\ UNCHANGED <<loadInterval, isLoadingSegments, pc, active, exit>>

\* an attempt to download the playlist ends (line 146)
PlaylistAttempt(ok) ==
    /\ pc = "playlist"
    /\ IF ok
         THEN /\ pc' = "parse"
              /\ fx' = <<>>
              /\ UNCHANGED <<tryCount, loadInterval, isLoadingSegments, active, exit>>
         ELSE AttemptFails
    /\ UNCHANGED <<phase, segmentCacheCount, resolvedUrl, urlExpire, startSequence, now,
                   items, idx, ctorArg, playlist, cursorAtStart, requestSeq, requestUrl,
                   firstResolve, cycleOut,
                   delivered, otherVars>>

\* a post-check that only looks at the timer
NothingToLoadClosedOnly(pl) == loadInterval = FALSE

\* this.loadInterval == null || items.length === 0 (line 164)
NothingToLoad(pl) == loadInterval = FALSE \/ Len(pl) = 0

\* the parser's 'end' after it emitted the items pl (lines 149-175)
ParserEnd(pl) ==
    /\ pc = "parse"
    /\ playlist' = pl
    /\ IF NothingToLoad(pl)
         THEN /\ Return(IF loadInterval = FALSE THEN "closed" ELSE "empty")
              /\ fx' = <<>>
              /\ UNCHANGED <<items, idx, tryCount>>
         ELSE /\ items' = Window(pl)
              /\ idx' = 1
              /\ tryCount' = LoadTries
              /\ pc' = "segment"
              /\ fx' = <<"fetch">>
              /\ UNCHANGED <<isLoadingSegments, active, exit>>
    /\ UNCHANGED <<phase, segmentCacheCount, resolvedUrl, urlExpire, startSequence, now,
                   loadInterval, ctorArg, cursorAtStart, requestSeq, requestUrl,
                   firstResolve, cycleOut, delivered,
                   otherVars>>

\* an attempt to download items[idx] ends (lines 173-193)
SegmentAttempt(ok) ==
    /\ pc = "segment"
    /\ IF ~ok
         THEN /\ AttemptFails
              /\ UNCHANGED <<startSequence, idx, cycleOut>>
         ELSE IF loadInterval = FALSE
           THEN /\ Return("closed")
                /\ fx' = <<>>
                /\ UNCHANGED <<startSequence, idx, cycleOut, tryCount, loadInterval>>
         ELSE /\ cycleOut' = Append(cycleOut, items[idx])
              /\ IF idx < Len(items)
                   THEN /\ idx' = idx + 1
                        /\ tryCount' = LoadTries
                        /\ fx' = <<"append", "fetch">>
                        /\ UNCHANGED <<startSequence, loadInterval, isLoadingSegments,
                                       pc, active, exit>>
                   ELSE IF NoSequenceID(items[Len(items)])
                     THEN /\ ErrorFn(<<"append">>)
                          /\ UNCHANGED <<startSequence, idx, tryCount>>
                     ELSE /\ startSequence' = Some(items[Len(items)] + 1)
                          /\ Return("complete")
                          /\ fx' = <<"append">>
                          /\ UNCHANGED <<idx, tryCount, loadInterval>>
    /\ UNCHANGED <<phase, segmentCacheCount, resolvedUrl, urlExpire, now, items, ctorArg,
                   playlist, cursorAtStart, requestSeq, requestUrl,
                   firstResolve, delivered, otherVars>>

\* a 'close' handler that leaves the interval timer running
CloseKeepsTimer ==
    /\ phase = "live"
    /\ fx' = <<>>
    /\ UNCHANGED <<phase, segmentCacheCount, resolvedUrl, urlExpire, startSequence,
                   loadInterval, isLoadingSegments, now, pc, tryCount, items, idx,
                   ctorArg, active, playlist, cursorAtStart, requestSeq, requestUrl,
                   firstResolve, cycleOut,
                   delivered, exit, otherVars>>

\* the stream is destroyed by its user: the 'close' handler (lines 84-89)
Close ==
    /\ phase = "live"
    /\ loadInterval' = FALSE
    /\ fx' = <<>>
    /\ UNCHANGED <<phase, segmentCacheCount, resolvedUrl, urlExpire, startSequence,
                   isLoadingSegments, now, pc, tryCount, items, idx, ctorArg, active,
                   playlist, cursorAtStart, requestSeq, requestUrl,
                   firstResolve, cycleOut, delivered, exit,
                   otherVars>>

ParkedCtl ==
    /\ phase = "off"
    /\ segmentCacheCount = 0
    /\ resolvedUrl = None
    /\ urlExpire = 0
    /\ startSequence = None
    /\ loadInterval = FALSE
    /\ isLoadingSegments = FALSE
    /\ now = 0
    /\ pc = "idle"
    /\ items = <<>>
    /\ idx = 0
    /\ ctorArg = None
    /\ active = 0
    /\ fx = <<>>
    /\ playlist = <<>>
    /\ cursorAtStart = None
    /\ requestSeq = None
    /\ requestUrl = None
    /\ firstResolve = None
    /\ cycleOut = <<>>
    /\ delivered = {}
    /\ exit = "none"

ParkedFetch ==
    /\ dlPc = "off"
    /\ reqUrl = Null
    /\ maxTries = 0
    /\ url = Null
    /\ redirectCount = 0
    /\ dlError = Null
    /\ attemptLog = <<>>
    /\ redirectsSeen = 0
    /\ dlWarnings = 0
    /\ httpsGetCalls = 0
    /\ invalidGetCalls = 0
    /\ strayGets = 0

(***************************************************************************)
(* The controller: the field initialisers (lines 27-35), before the         *)
(* constructor runs                                                         *)
(***************************************************************************)
Init ==
    /\ ParkedFetch
    /\ ParkedParser
    /\ tryCount = 0
    /\ phase = "new"
    /\ segmentCacheCount = 0
    /\ resolvedUrl = None
    /\ urlExpire = 0
    /\ startSequence = None
    /\ loadInterval = FALSE
    /\ isLoadingSegments = FALSE
    /\ now = 1
    /\ pc = "idle"
    /\ items = <<>>
    /\ idx = 0
    /\ ctorArg = None
    /\ active = 0
    /\ fx = <<>>
    /\ playlist = <<>>
    /\ cursorAtStart = None
    /\ requestSeq = None
    /\ requestUrl = None
    /\ firstResolve = None
    /\ cycleOut = <<>>
    /\ delivered = {}
    /\ exit = "none"

Next ==
    \/ \E first \in FirstArgs, arg \in CacheArgs : Construct(first, arg)
    \/ Tick
    \/ \E u \in ResolvedUrls : ResolveReturn(u)
    \/ ResolveThrows
    \/ \E ok \in BOOLEAN : PlaylistAttempt(ok)
    \/ \E pl \in Playlists : ParserEnd(pl)
    \/ \E ok \in BOOLEAN : SegmentAttempt(ok)
    \/ Close

Spec == Init /\ [][Next]_vars

\* the steps of a running loadSegments call: each is the completion of the resolver
\* call, of a download attempt or of the parser that the call awaits
CycleStep ==
    \/ \E u \in ResolvedUrls : ResolveReturn(u)
    \/ ResolveThrows
    \/ \E ok \in BOOLEAN : PlaylistAttempt(ok)
    \/ \E pl \in Playlists : ParserEnd(pl)
    \/ \E ok \in BOOLEAN : SegmentAttempt(ok)

\* the controller when every resolver call, request and parse it awaits completes
SpecLive == Init /\ [][Next]_vars /\ WF_vars(CycleStep)

(***************************************************************************)
(* One downloadTries(u, n, warningCallback) call, just made                 *)
(***************************************************************************)
InitFetch ==
    /\ ParkedParser
    /\ ParkedCtl
    /\ dlPc = "call"
    /\ reqUrl \in Schemes
    /\ url = reqUrl
    /\ maxTries \in 1..MaxTries
    /\ tryCount = maxTries
    /\ redirectCount = 0
    /\ dlError = Null
    /\ attemptLog = <<>>
    /\ redirectsSeen = 0
    /\ dlWarnings = 0
    /\ httpsGetCalls = 0
    /\ invalidGetCalls = 0
    /\ strayGets = 0

NextFetch ==
    \/ DownloadBuffer /\ UNCHANGED <<parserVars, ctlVars>>
    \/ \E status \in StatusCodes, location \in Schemes :
          Response(status, location) /\ UNCHANGED <<parserVars, ctlVars>>
    \/ TransportError /\ UNCHANGED <<parserVars, ctlVars>>
    \/ StrayRequestEnds /\ UNCHANGED <<parserVars, ctlVars>>

SpecFetch == InitFetch /\ [][NextFetch]_vars

(***************************************************************************)
(* One new M3U8Parser(), about to be fed a document                         *)
(***************************************************************************)
InitParser ==
    /\ ParkedFetch
    /\ ParkedCtl
    /\ tryCount = 0
    /\ parserPc = "open"
    /\ doc \in Documents(MaxPieces)
    /\ rest = doc
    /\ lastLine = <<>>
    /\ decoded = <<>>
    /\ events = <<>>

NextParser ==
    \/ \E n \in 0..Len(rest) : Write(n) /\ UNCHANGED <<fetchVars, ctlVars>>
    \/ Finish /\ UNCHANGED <<fetchVars, ctlVars>>

SpecParser == InitParser /\ [][NextParser]_vars

(***************************************************************************)
(* Properties of the controller, checked under Spec                         *)
(***************************************************************************)
cycleVars == <<isLoadingSegments, startSequence, resolvedUrl, urlExpire, loadInterval,
               pc, tryCount, items, idx, active, playlist, cursorAtStart, requestSeq, requestUrl,
               firstResolve,
               cycleOut, delivered, exit>>

\* C1: at most one loadSegments call is past the guard at any time; a timer tick that
\* finds the guard set emits exactly one warning and nothing else (no resolver call, no
\* fetch), changes nothing of the controller or of the running cycle, and returns; and
\* a cycle starts only in the step of a timer tick or of the constructor, so a skipped
\* call is not run later.
C1_OverlapSkipped ==
    /\ [](active =< 1)
    /\ [][(now' # now /\ isLoadingSegments)
             => (fx' = <<"warning">> /\ UNCHANGED cycleVars)]_vars
    /\ [][(active' > active) => (now' # now \/ phase = "new")]_vars

\* a tick found a cycle running and was skipped
C1_Witness ==
    /\ fx = <<"warning">>
    /\ isLoadingSegments
    /\ pc = "segment"
    /\ active = 1

\* C2: the sequence ids of the segments piped into the stream ascend over the whole
\* lifetime: a cycle pipes its items in document order, and every segment a later cycle
\* pipes has a higher sequence id than every segment an earlier cycle piped.
C2_AscendingOutput ==
    /\ Len(cycleOut) =< Len(items)
    /\ cycleOut = SubSeq(items, 1, Len(cycleOut))
    /\ \A x \in delivered : \A i \in DOMAIN cycleOut :
          (x # NoSeq /\ cycleOut[i] # NoSeq) => x < cycleOut[i]

\* C3: the start sequence is absent before the first cycle completes and never
\* decreases once set.
C3_CursorMonotone ==
    /\ [](phase = "new" => startSequence = None)
    /\ [][startSequence # None
            => (startSequence' # None /\ The(startSequence') >= The(startSequence))]_vars

\* C4: in a cycle that runs with a start sequence c, every item fetched has a sequence
\* id of at least c, and no segment is piped twice.
C4_OnlyNewItemsFetched ==
    /\ (pc = "segment" /\ startSequence # None /\ items[idx] # NoSeq)
          => items[idx] >= The(startSequence)
    /\ \A i \in DOMAIN cycleOut : cycleOut[i] \notin delivered

\* C5: the segments a cycle pipes are, in document order, the last
\* min(n, segmentCacheCount) of the n >= 1 items of its playlist if it started without
\* a start sequence, and all n items if it started with one: a cycle that ran to its
\* end piped exactly these, and the start sequence is then the sequence id of the last
\* segment piped plus one.
C5_Windowing ==
    LET n == Len(playlist)
        k == Len(cycleOut)
        min == IF n =< segmentCacheCount THEN n ELSE segmentCacheCount
        kept == IF cursorAtStart = None THEN min ELSE n
    IN  /\ k =< kept
        /\ \A i \in 1..k : cycleOut[i] = playlist[n - kept + i]
        /\ exit = "complete" =>
              /\ n >= 1
              /\ k = kept
              /\ startSequence = Some(cycleOut[k] + 1)

\* the first cycle completed on a playlist longer than the cache count
C5_Witness ==
    /\ exit = "complete"
    /\ cursorAtStart = None
    /\ Len(playlist) > segmentCacheCount
    /\ Len(cycleOut) = segmentCacheCount

\* C6: a constructor call with a segment cache count below 3 throws, so that no stream
\* lives with one; 3 is accepted and is the default; the timer period of a live
\* stream is positive.
C6_SmallCacheCountRejected ==
    /\ (ctorArg # None /\ The(ctorArg) < MinCacheCount) => phase # "live"
    /\ (ctorArg = None \/ ctorArg = Some(MinCacheCount)) =>
          (phase = "live" => segmentCacheCount = MinCacheCount)
    /\ phase = "live" => IntervalMs(segmentCacheCount) > 0

(***************************************************************************)
(* Properties of the fetcher, checked under SpecFetch                       *)
(***************************************************************************)
Failed(i) == attemptLog[i].res # "ok"

\* C7: downloadTries makes its attempts one after another, stops at the first success
\* or after maxTries failed attempts, warns once per failed attempt, resolves iff an
\* attempt succeeded, and otherwise rejects with the last attempt's error.
C7_RetryContract ==
    dlPc # "off" =>
        /\ Len(attemptLog) =< maxTries
        /\ \A i \in 1..(Len(attemptLog) - 1) : Failed(i)
        /\ dlWarnings = Cardinality({i \in DOMAIN attemptLog : Failed(i)})
        /\ (dlPc = "resolved") <=> (attemptLog # <<>> /\ ~Failed(Len(attemptLog)))
        /\ (dlPc = "rejected")
              <=> (Len(attemptLog) = maxTries /\ \A i \in DOMAIN attemptLog : Failed(i))
        /\ (dlPc = "rejected") => dlError = attemptLog[maxTries].res

\* two failed attempts, then success, with maxTries = 3: resolved, two warnings
C7_Witness ==
    /\ dlPc = "resolved"
    /\ maxTries = 3
    /\ Len(attemptLog) = 3
    /\ dlWarnings = 2

\* C8: an attempt fails with TooManyRedirects only when it received more than
\* maxRedirects redirect responses, so that a chain of up to maxRedirects redirects
\* followed by a 2xx answer succeeds.
C8_RedirectBound ==
    \A i \in DOMAIN attemptLog :
        attemptLog[i].res = "TooManyRedirects" => attemptLog[i].redirects > maxRedirects

\* C9: for a url that is not https the fetch fails with the invalid-url error instead
\* of calling https.get: no request is made for such a url.
C9_NoGetForInvalidUrl ==
    /\ invalidGetCalls = 0
    /\ dlPc = "wait" => ~InvalidUrl(url)

(***************************************************************************)
(* Properties of the parser, checked under SpecParser                       *)
(***************************************************************************)
\* the events of the document written in one _write call and finished
EventsOfWhole(d) ==
    LET lines == WriteLines(d, <<>>)
    IN  ParseLines(SubSeq(lines, 1, Len(lines) - 1))
          \o parseLine(lines[Len(lines)]) \o <<[type |-> "end"]>>

\* C10: once finished, the events emitted are those of the whole document written in
\* one call, however the document was split into _write calls.
C10_ChunkingInvariance ==
    parserPc = "finished" => events = EventsOfWhole(doc)

(***************************************************************************)
(* Error, warning and teardown properties of the controller, under Spec     *)
(***************************************************************************)
\* C11: an error is emitted at most once in the life of a stream and the step that
\* emits it clears the timer and ends the cycle; from then on the timer stays cleared,
\* no cycle is running, and no step calls the resolver, starts a fetch, pipes a segment
\* or emits another error.
C11_SingleErrorThenSilence ==
    /\ [](exit = "error" => (loadInterval = FALSE /\ pc = "idle" /\ active = 0))
    /\ [][("error" \in SetOf(fx') /\ fx' # fx) =>
             (exit # "error" /\ exit' = "error" /\ loadInterval' = FALSE)]_vars
    /\ [][exit = "error" =>
             /\ exit' = "error"
             /\ SetOf(fx') \cap {"error", "resolve", "fetch", "append"} = {}
             /\ UNCHANGED <<cycleOut, delivered, now>>]_vars

\* a second cycle, which follows one that piped segments, ended with an error
C11_Witness ==
    /\ exit = "error"
    /\ delivered # {}
    /\ loadInterval = FALSE

\* C12: a failed attempt of a playlist or segment download that is the first or the
\* second failure of that download emits one warning and starts the next attempt,
\* leaving the timer, the guard, the position of the cycle and everything it piped
\* untouched; only the third failure in a row of the same download emits, after its
\* warning, the error.  A successful attempt in the segment loop of a live stream
\* pipes its segment whatever failed before it.
C12_WarningsDoNotStop ==
    /\ [](pc \in {"playlist", "segment"} => tryCount \in 1..LoadTries)
    /\ [][(now' = now /\ "warning" \in SetOf(fx')) =>
             /\ pc \in {"playlist", "segment"}
             /\ IF LoadTries - tryCount + 1 < LoadTries
                  THEN /\ fx' = <<"warning", "fetch">>
                       /\ tryCount' = tryCount - 1
                       /\ UNCHANGED <<pc, loadInterval, isLoadingSegments, exit, active,
                                      items, idx, cycleOut, delivered, startSequence,
                                      resolvedUrl, urlExpire, phase>>
                  ELSE fx' = <<"warning", "error">>]_vars
    /\ [][(pc = "segment" /\ now' = now /\ loadInterval /\ loadInterval'
              /\ "warning" \notin SetOf(fx'))
             => cycleOut' = Append(cycleOut, items[idx])]_vars

\* the download of the last segment failed twice and then succeeded: the cycle ran to
\* its end and the timer is still set
C12_Witness ==
    /\ exit = "complete"
    /\ tryCount = 1
    /\ loadInterval
    /\ cycleOut # <<>>

\* C13: the step in which the stream is closed leaves the timer cleared, emits
\* nothing and touches nothing else, whether the timer was still set or not (a second
\* close); and once the timer is cleared it stays cleared, no timer callback runs and
\* no cycle starts.
C13_CloseStopsCycles ==
    /\ [][(phase = "live" /\ UNCHANGED <<pc, tryCount, idx, now>>) =>
             /\ loadInterval' = FALSE
             /\ fx' = <<>>
             /\ UNCHANGED <<phase, isLoadingSegments, active, exit, startSequence,
                            resolvedUrl, urlExpire, items, cycleOut, delivered>>]_vars
    /\ [][(phase = "live" /\ loadInterval = FALSE) =>
             /\ loadInterval' = FALSE
             /\ now' = now
             /\ active' =< active
             /\ delivered' = delivered]_vars

\* the stream was closed during a cycle, the cycle has returned, and the timer, which
\* had ticks left, is cleared
C13_Witness ==
    /\ phase = "live"
    /\ loadInterval = FALSE
    /\ exit = "closed"
    /\ pc = "idle"
    /\ now =< MaxTicks

\* C14: once the timer is cleared, a cycle that was waiting for the playlist or for a
\* segment starts no download of a further item and pipes nothing, keeps the start
\* sequence and what it piped before, emits no error, and when it ends it has reset
\* the guard.
C14_CooperativeCancel ==
    [][(phase = "live" /\ loadInterval = FALSE /\ pc \in {"playlist", "parse", "segment"})
         => /\ "append" \notin SetOf(fx')
            /\ "error" \notin SetOf(fx')
            /\ idx' = idx \/ pc' = "idle"
            /\ UNCHANGED <<startSequence, cycleOut>>
            /\ pc' = "idle" => (isLoadingSegments' = FALSE /\ exit' = "closed")]_vars

\* C15: a step that pipes a downloaded segment into the stream also emits 'available'.
C15_AvailableOnAppend ==
    "append" \in SetOf(fx) => "available" \in SetOf(fx)

(***************************************************************************)
(* Source and request properties of the controller, under Spec              *)
(***************************************************************************)
\* C16: a call of loadSegments that passes the guard calls the resolver exactly when
\* no url is held or the time of the call is past the held url's expire time; no other
\* step calls it; the first call of the resolver gets firstResolve = true and every
\* later call false; and a playlist request is made for the url held in the step that
\* makes it.
C16_SourceFreshness ==
    /\ [][(active' > active) =>
             (("resolve" \in SetOf(fx')) <=> (resolvedUrl = None \/ now' > urlExpire))]_vars
    /\ [][("resolve" \in SetOf(fx')) => active' > active]_vars
    /\ [][(active' > active /\ "resolve" \in SetOf(fx')) =>
             (firstResolve' = Some(firstResolve = None) /\ pc' = "resolve")]_vars
    /\ [][(active' =< active \/ "resolve" \notin SetOf(fx')) =>
             firstResolve' = firstResolve]_vars
    /\ [][("fetch" \in SetOf(fx') /\ pc # "segment" /\ pc' = "playlist") =>
             (resolvedUrl' # None /\ requestUrl' = resolvedUrl')]_vars
    /\ [](pc = "playlist" => (resolvedUrl # None /\ requestUrl = resolvedUrl))

\* the held url expired, a later cycle called the resolver again with
\* firstResolve = false, and requested the playlist from the url it returned
C16_Witness ==
    /\ firstResolve = Some(FALSE)
    /\ pc = "playlist"
    /\ now > 1
    /\ requestUrl = resolvedUrl

\* C18: the step that pipes the last item of a cycle ends the cycle.  If that item
\* embeds no sequence id the step emits the error and clears the timer, the start
\* sequence keeps its value and everything the cycle piped stays piped; otherwise the
\* start sequence becomes that item's sequence id plus one and no error is emitted.
\* The start sequence changes in no other step.
C18_MissingSequenceID ==
    /\ [][(pc = "segment" /\ "append" \in SetOf(fx') /\ pc' = "idle") =>
             LET last == items[Len(items)]
             IN  /\ idx = Len(items)
                 /\ cycleOut' = Append(cycleOut, last)
                 /\ IF last = NoSeq
                      THEN /\ fx' = <<"append", "error">>
                           /\ exit' = "error"
                           /\ loadInterval' = FALSE
                           /\ startSequence' = startSequence
                      ELSE /\ fx' = <<"append">>
                           /\ exit' = "complete"
                           /\ loadInterval' = loadInterval
                           /\ startSequence' = Some(last + 1)]_vars
    /\ [][startSequence' # startSequence =>
             (pc = "segment" /\ "append" \in SetOf(fx') /\ pc' = "idle")]_vars
    /\ [][(exit = "error" /\ exit' = "error") => UNCHANGED <<cycleOut, startSequence>>]_vars

\* a second cycle piped two segments and failed on the last item's missing sequence
\* id: the start sequence is still the one the first cycle set
C18_Witness ==
    /\ exit = "error"
    /\ Len(cycleOut) >= 2
    /\ cycleOut[Len(cycleOut)] = NoSeq
    /\ startSequence # None
    /\ startSequence = cursorAtStart

\* C19: when the resolver returns a url that embeds no expire time, the step emits
\* the error, clears the timer and ends the cycle, which has started no download and
\* starts none; the stream then stays torn down, so the resolver is not asked again.
C19_MissingExpiry ==
    /\ [](pc = "resolve" => (cycleOut = <<>> /\ playlist = <<>> /\ idx = 0
                               /\ "fetch" \notin SetOf(fx)))
    /\ [][(pc = "resolve" /\ pc' # "resolve" /\ resolvedUrl' = Some(NoExpire)) =>
             /\ fx' = <<"error">>
             /\ exit' = "error"
             /\ loadInterval' = FALSE
             /\ pc' = "idle"
             /\ UNCHANGED <<urlExpire, requestUrl, requestSeq, tryCount, cycleOut>>]_vars
    /\ [](resolvedUrl = Some(NoExpire) =>
             (exit = "error" /\ loadInterval = FALSE /\ pc = "idle" /\ active = 0))

\* the url of the first cycle expired and the resolver's second answer had no expire
\* time
C19_Witness ==
    /\ resolvedUrl = Some(NoExpire)
    /\ exit = "error"
    /\ firstResolve = Some(FALSE)
    /\ delivered # {}

\* C20: the step that requests the playlist builds the request from the held url: the
\* request has no start_seq parameter when no start sequence is held and exactly one,
\* whose value is the start sequence, when one is held; parameters of earlier
\* requests are not carried over, and the held url and its expire time are not changed
\* by a request that follows no resolver call.
C20_RequestCarriesCursor ==
    /\ [](Len(requestSeq) =< 1)
    /\ [][(pc' = "playlist" /\ pc # "playlist") =>
             /\ requestUrl' = resolvedUrl'
             /\ startSequence' = startSequence
             /\ IF startSequence = None
                  THEN requestSeq' = <<>>
                  ELSE requestSeq' = <<The(startSequence)>>
             /\ pc # "resolve" => UNCHANGED <<resolvedUrl, urlExpire>>]_vars
    /\ [][pc = "playlist" => UNCHANGED <<requestUrl, requestSeq, resolvedUrl>>]_vars

\* a later cycle requests the playlist with the start sequence 3 an earlier cycle
\* set, from the url the only resolver call returned
C20_Witness ==
    /\ pc = "playlist"
    /\ now = 3
    /\ delivered # {}
    /\ requestSeq = <<3>>
    /\ firstResolve = Some(TRUE)

(***************************************************************************)
(* Properties of the parser's events, checked under SpecParser              *)
(***************************************************************************)
IsTagEvent(e) ==
    /\ e.type = "tag"
    /\ Len(e.name) >= 4
    /\ SubSeq(e.name, 1, 3) = <<69, 88, 84>>
    /\ \A i \in DOMAIN e.name : IsTagChar(e.name[i])
    /\ e.payload = None \/ \A i \in DOMAIN e.payload : ~IsLineTerminator(e.payload[i])

IsItemEvent(e) ==
    /\ e.type = "item"
    /\ e.value # <<>>
    /\ e.value = Trim(e.value)
    /\ \A i \in DOMAIN e.value : e.value[i] # NL

\* the line a tag or item event was emitted for: some line of lines, at or after
\* position from, of which the event holds the name or the trimmed text
FromLine(e, line) ==
    IF e.type = "tag"
      THEN /\ Len(line) >= 1 + Len(e.name)
           /\ SubSeq(line, 1, 1 + Len(e.name)) = <<HASH>> \o e.name
           /\ (Len(line) = 1 + Len(e.name) \/ ~IsTagChar(line[2 + Len(e.name)]))
      ELSE /\ line # <<>>
           /\ Head(line) # HASH
           /\ Trim(line) = e.value

\* C17: the tag and item events are, in order, the events of the complete lines of the
\* text decoded so far, one event at most per line: a tag event with the name and the
\* payload or null for a line of the directive pattern, an item event with the trimmed
\* line for a line that is not blank and does not start with '#', none for the other
\* lines.  The finish classifies the pending partial line as the last line and then
\* emits the one end event, which is the last event.
C17_ClassificationAndEnd ==
    LET lines == SplitNL(decoded)
        complete == IF parserPc = "finished" THEN lines
                    ELSE SubSeq(lines, 1, Len(lines) - 1)
        n == IF parserPc = "finished" THEN Len(events) - 1 ELSE Len(events)
    IN  parserPc # "off" =>
          /\ n >= 0 /\ n =< Len(complete)
          /\ \A i \in 1..n : IsTagEvent(events[i]) \/ IsItemEvent(events[i])
          /\ parserPc = "finished" => events[Len(events)] = [type |-> "end"]
          /\ parserPc = "open" => lastLine = lines[Len(lines)]
          /\ SubSeq(events, 1, n) = ParseLines(complete)
          /\ \E f \in [1..n -> 1..Len(complete)] :
                /\ \A i \in 1..n : FromLine(events[i], complete[f[i]])
                /\ \A i \in 1..(n - 1) : f[i] < f[i + 1]
                /\ \A k \in 1..Len(complete) :
                      (\A i \in 1..n : f[i] # k) =>
                          \/ Trim(complete[k]) = <<>>
                          \/ Head(complete[k]) = HASH /\ ~TagMatches(complete[k])

\* a tag line and an unterminated item line: tag, item (emitted by the finish), end
C17_Witness ==
    /\ parserPc = "finished"
    /\ Len(events) = 3
    /\ events[1].type = "tag"
    /\ events[2].type = "item"
    /\ lastLine # <<>>

(***************************************************************************)
(* Frame and scheduling properties of the controller, under Spec            *)
(***************************************************************************)
\* C21: when the parser ends without an item on a live stream, the step starts no
\* download, pipes nothing and emits nothing, leaves the start sequence, the timer
\* and the held url as they are and resets the guard; the next timer tick then runs
\* a cycle instead of warning.  The start sequence changes only in the step that
\* completes a cycle which piped at least one segment.
C21_EmptyPlaylist ==
    /\ [][(pc = "parse" /\ pc' # "parse" /\ playlist' = <<>> /\ loadInterval) =>
             /\ fx' = <<>>
             /\ exit' = "empty"
             /\ pc' = "idle"
             /\ isLoadingSegments' = FALSE
             /\ active' = 0
             /\ UNCHANGED <<startSequence, loadInterval, resolvedUrl, urlExpire,
                            cycleOut, delivered, phase>>]_vars
    /\ [](exit = "empty" => (cycleOut = <<>> /\ isLoadingSegments = FALSE))
    /\ [][(exit = "empty" /\ now' # now) =>
             (active' = 1 /\ isLoadingSegments' /\ exit' = "none"
              /\ "warning" \notin SetOf(fx') /\ pc' \in {"resolve", "playlist"})]_vars
    /\ [][startSequence' # startSequence =>
             (exit' = "complete" /\ Len(cycleOut') >= 1)]_vars

\* a cycle that held a start sequence got an empty playlist: the start sequence is
\* kept, the timer is set and the guard is reset
C21_Witness ==
    /\ exit = "empty"
    /\ startSequence # None
    /\ startSequence = cursorAtStart
    /\ loadInterval
    /\ isLoadingSegments = FALSE

\* C23: whenever the guard is set while no loadSegments call is running, the timer
\* is cleared; and a timer tick that finds no call running starts a cycle instead of
\* emitting the overlap warning.
C23_GuardNeverWedges ==
    /\ []((isLoadingSegments /\ active = 0) => loadInterval = FALSE)
    /\ []((isLoadingSegments /\ pc = "idle") => exit = "error")
    /\ [][(now' # now /\ active = 0) =>
             (active' = 1 /\ "warning" \notin SetOf(fx') /\ pc' # "idle")]_vars

\* a cycle threw: the guard is still set, no call is running, the timer is cleared
C23_Witness ==
    /\ phase = "live"
    /\ isLoadingSegments
    /\ active = 0
    /\ pc = "idle"
    /\ loadInterval = FALSE

\* C24: every cycle that started ends, by a return that resets the guard or by the
\* error with the timer cleared; while it downloads the playlist or a segment it is
\* within the three attempts of that download, and it downloads at most the items of
\* its playlist.
C24_CycleTerminates ==
    /\ [](pc \in {"playlist", "segment"} => (LoadTries - tryCount + 1) \in 1..LoadTries)
    /\ [](pc = "segment" => (idx \in 1..Len(items) /\ Len(items) =< Len(playlist)))
    /\ [](pc = "idle" => (isLoadingSegments = FALSE
                           \/ (exit = "error" /\ loadInterval = FALSE)))
    /\ []<>(pc = "idle")

\* a cycle ended with the error after the third failed attempt for a segment
C24_Witness ==
    /\ pc = "idle"
    /\ exit = "error"
    /\ tryCount = 1
    /\ fx = <<"warning", "error">>
    /\ cycleOut # <<>>

\* C25: a constructor call that throws has started no cycle, called neither the
\* resolver nor a download and set no timer, and nothing happens afterwards; a
\* constructor call that returns has started exactly one cycle, which is at its first
\* await, and has set the timer.
C25_ConstructionEffects ==
    /\ [](phase = "failed" =>
             /\ active = 0 /\ pc = "idle" /\ exit = "none"
             /\ isLoadingSegments = FALSE /\ loadInterval = FALSE
             /\ fx = <<>> /\ firstResolve = None /\ requestUrl = None
             /\ resolvedUrl = None /\ startSequence = None /\ tryCount = 0
             /\ cycleOut = <<>> /\ delivered = {})
    /\ [][phase # "failed"]_vars
    /\ [][phase = "new" =>
             (phase' = "failed"
              \/ (/\ phase' = "live"
                  /\ active' = 1
                  /\ isLoadingSegments'
                  /\ loadInterval'
                  /\ pc' = "resolve"
                  /\ fx' = <<"resolve">>
                  /\ firstResolve' = Some(TRUE)
                  /\ now' = now))]_vars
    /\ [][phase # "new" => phase' = phase]_vars

\* the constructor threw for a segment cache count of 2
C25_Witness ==
    /\ phase = "failed"
    /\ ctorArg = Some(2)
    /\ loadInterval = FALSE

(***************************************************************************)
(* Sequencing of the fetcher's requests, checked under SpecFetch            *)
(***************************************************************************)
\* requests sent and not yet answered
Outstanding == (IF dlPc = "wait" THEN 1 ELSE 0) + strayGets

\* C22: at most one request is outstanding at any time, and a new request (a retry
\* or a redirect hop) is sent only when none is.
C22_OneRequestAtATime ==
    /\ [](Outstanding =< 1)
    /\ [][httpsGetCalls' > httpsGetCalls => Outstanding = 0]_vars

\* the fetcher's side of termination: a downloadTries call makes at most maxTries
\* attempts and an attempt at most maxRedirects calls of https.get
RequestsPerCallBounded ==
    /\ Len(attemptLog) =< maxTries
    /\ redirectCount =< maxRedirects - 1
    /\ httpsGetCalls =< maxTries * maxRedirects

=============================================================================
